---- MODULE Spec2Model ----
(***************************************************************************)
(* A model of Pincer's client-side rate limiter                            *)
(* (pincer/core/ratelimiter.py: Bucket, RateLimiter) and of the            *)
(* synchronous HttpApi.get of pyscord/core/http, and of                    *)
(* thread_update_middleware (pincer/middleware/thread_update.py).          *)
(*                                                                         *)
(* Time is counted in whole ticks of the clock read by time().  Header     *)
(* values are texts (sequences of characters) as the transport delivers    *)
(* them; int() and float() parse them.  Python dicts are functions whose   *)
(* domain is the set of keys present.                                      *)
(***************************************************************************)
EXTENDS Integers, Sequences, FiniteSets, TLC

(* ------------------------------ bounds -------------------------------- *)

\* The clock runs from 0 to MaxTime.
MaxTime == 1

(* ------------------------------ inputs -------------------------------- *)

Endpoints == {"/channels"}
Methods == {"GET", "POST"}
\* A route is the key (endpoint, method) of bucket_map.
Routes == Endpoints \X Methods
NoRoute == <<"", "">>

BucketIds == {"b1", "b2"}
Callers == {"t1", "t2"}
\* The tasks that call the limiter one after another under Spec.
SeqCallers == {"t1"}

H_BUCKET == "X-RateLimit-Bucket"
H_LIMIT == "X-RateLimit-Limit"
H_REMAINING == "X-RateLimit-Remaining"
H_RESET == "X-RateLimit-Reset"
H_RESET_AFTER == "X-RateLimit-Reset-After"
H_RETRY_AFTER == "Retry-After"
H_GLOBAL == "X-RateLimit-Global"
NumericNames == {H_LIMIT, H_REMAINING, H_RESET, H_RESET_AFTER}
HeaderNames == {H_BUCKET} \cup NumericNames

(* --------------------------- text of numbers --------------------------- *)

Digits == <<"0", "1", "2", "3", "4", "5", "6", "7", "8", "9">>
\* The value of each digit.
DigitVal == [i \in 1..10 |-> i - 1]
ValueOf == [ch \in {Digits[i] : i \in 1..10} |-> DigitVal[CHOOSE i \in 1..10 : Digits[i] = ch]]
IsDigit(ch) == ch \in DOMAIN ValueOf

\* The text a server writes for a small natural number.
Text(n) == <<Digits[n + 1]>>

Unsigned(s) == IF s # <<>> /\ s[1] = "-" THEN Tail(s) ELSE s
\* Whether int(s) / float(s) accepts the text (else ValueError).
IsNumeric(s) == LET u == Unsigned(s) IN u # <<>> /\ \A i \in 1..Len(u) : IsDigit(u[i])

RECURSIVE NatOf(_)
NatOf(s) == IF s = <<>> THEN 0
            ELSE 10 * NatOf(SubSeq(s, 1, Len(s) - 1)) + ValueOf[s[Len(s)]]

\* int("...") of a numeric text.
int(s) == IF s[1] = "-" THEN 0 - NatOf(Tail(s)) ELSE NatOf(s)
\* float("...") of a numeric text, in ticks.
float(s) == IF s[1] = "-" THEN 0 - NatOf(Tail(s)) ELSE NatOf(s)

(* ------------------------------ headers -------------------------------- *)

EmptyDict == [k \in {} |-> k]
\* d[k] = v of a dict
Put(d, k, v) == [x \in DOMAIN d \cup {k} |-> IF x = k THEN v ELSE d[x]]
\* del d[k]
Without(d, k) == [x \in DOMAIN d \ {k} |-> d[x]]

\* The server's X-RateLimit-Reset for a Reset-After of a ticks: its own clock,
\* which is not the client's, plus a.
ResetOf(a) == a + MaxTime + 1

Numbers(l, r, a) ==
    (H_LIMIT :> Text(l)) @@ (H_REMAINING :> Text(r)) @@
    (H_RESET :> Text(ResetOf(a))) @@ (H_RESET_AFTER :> Text(a))

\* Responses that carry a bucket id and every rate-limit number, for a set of
\* triples (limit, remaining, reset_after).
Metered(P) == {Put(Numbers(p[1], p[2], p[3]), H_BUCKET, b) : p \in P, b \in BucketIds}

\* Responses with every number and no bucket id, or an empty one.
Unmetered == {Numbers(1, 0, 1), Put(Numbers(1, 0, 1), H_BUCKET, "")}

\* Responses with a bucket id and one number missing or not a number, and
\* two such responses without a bucket id.
BrokenHeaders ==
    LET h == Put(Numbers(1, 0, 1), H_BUCKET, "b1") IN
    {Without(h, k) : k \in NumericNames} \cup
    {Put(h, k, <<"x">>) : k \in NumericNames} \cup
    {Without(Numbers(1, 0, 1), H_LIMIT), Put(Numbers(1, 0, 1), H_RESET, <<"x">>)}

\* The responses of Spec: the quota is exhausted or not and resets in 1 or 2,
\* or the response is unmetered, empty or without its limit.
Headers ==
    Metered({2} \X {0, 2} \X {1, 2}) \cup Unmetered \cup
    {EmptyDict, Without(Put(Numbers(1, 0, 1), H_BUCKET, "b1"), H_LIMIT)}

\* The responses of SpecStore: every field takes two values and every two
\* fields take their four pairs of values, remaining may exceed limit, and any
\* number may be missing or not a number.
StoreHeaders ==
    Metered({<<1, 0, 1>>, <<1, 2, 2>>, <<2, 0, 2>>, <<2, 2, 1>>}) \cup
    Unmetered \cup BrokenHeaders \cup {EmptyDict}

\* The responses of SpecGlobal: the quota is exhausted or not.
QuotaHeaders == Metered({<<2, 0, 1>>, <<2, 2, 1>>})

\* The responses of SpecConc: a bucket is exhausted or has one request left.
ConcHeaders == Metered({<<2, 0, 1>>, <<2, 1, 1>>})

\* The responses of SpecHttp: those of one bucket.
OneBucketHeaders == {h \in QuotaHeaders : h[H_BUCKET] = "b1"}

\* 429 responses of global scope, with no bucket id or with an exhausted one.
GlobalHeaders ==
    {Put(Put(h, H_RETRY_AFTER, Text(r)), H_GLOBAL, "true") :
        h \in {EmptyDict, Put(Numbers(2, 0, 1), H_BUCKET, "b1")}, r \in {1, 2}}

(* ------------------------------- state --------------------------------- *)

VARIABLES
    now,            \* the value time() returns
    bucket_map,     \* RateLimiter.bucket_map: route -> bucket id
    buckets,        \* RateLimiter.buckets: bucket id -> Bucket
    task,           \* per caller: where it is in wait_until_not_ratelimited
    last,           \* history: the call made by the last step, and how it ended
    seen,           \* history: bucket id -> the numbers of the latest response
                    \*   that carried the id and all four numbers
    carried,        \* history: the routes a response of which carried a bucket id
    lockout_until,  \* GlobalLimitGuard.until: the end of the global lockout
    http,           \* the call of HttpApi.get under way
    peer,           \* which RateLimiter instance is self, and the dicts of the other
    client          \* Client.guilds and Client.channels, and what the middleware returned

vars == <<now, bucket_map, buckets, task, last, seen, carried, lockout_until, http,
          peer, client>>

\* dataclass Bucket
Bucket(limit, remaining, reset, reset_after, time_cached) ==
    [limit |-> limit, remaining |-> remaining, reset |-> reset,
     reset_after |-> reset_after, time_cached |-> time_cached]

Idle == [pc |-> "idle", bucket_id |-> "", wake_at |-> 0]

NoCall == [op |-> "init", route |-> NoRoute, res |-> "", who |-> "",
           prev |-> NoRoute, twice |-> "no", lacks |-> FALSE,
           bucket |-> "", granted |-> {}, data |-> EmptyDict]

\* Mutant: bucket_map and buckets are attributes of the class, one pair of
\* dicts for every instance.
M26_RateLimiter_init ==
    [shared |-> TRUE, bucket_map |-> EmptyDict, buckets |-> EmptyDict]

\* RateLimiter.__init__ of a second instance: two new dicts of its own.
\* shared tells whether its dicts are the very dicts of the first instance.
RateLimiter_init ==
    [shared |-> FALSE, bucket_map |-> EmptyDict, buckets |-> EmptyDict]

\* A Client whose caches are empty and whose middleware has returned nothing.
NewClient == [guilds |-> EmptyDict, channels |-> EmptyDict, returned |-> <<>>]

\* No call of HttpApi.get is under way.  acquired and observed tell whether
\* the call has waited on the limiter before its send and has handed the
\* headers of its response to the limiter.
HttpIdle == [pc |-> "idle", path |-> "", status |-> 0, sends |-> 0, exc |-> "",
             acquired |-> FALSE, observed |-> FALSE]

Init ==
    /\ now = 0
    /\ bucket_map = EmptyDict
    /\ buckets = EmptyDict
    /\ task = [c \in Callers |-> Idle]
    /\ last = NoCall
    /\ seen = EmptyDict
    /\ carried = {}
    /\ lockout_until = 0
    /\ http = HttpIdle
    /\ peer = [self |-> "A", other |-> RateLimiter_init]
    /\ client = NewClient

(* ------------------------ save_response_bucket ------------------------- *)

\* header.get(name): None is modelled by the empty text, which is as falsy.
Get(header, name) == IF name \in DOMAIN header THEN header[name] ELSE ""

\* What evaluating int(header[name]) / float(header[name]) raises.
FieldError(header, name) ==
    IF name \notin DOMAIN header THEN "KeyError"
    ELSE IF ~IsNumeric(header[name]) THEN "ValueError"
    ELSE "ok"

\* The first error among the arguments of Bucket(...), evaluated in order.
BucketError(header) ==
    IF FieldError(header, H_LIMIT) # "ok" THEN FieldError(header, H_LIMIT)
    ELSE IF FieldError(header, H_REMAINING) # "ok" THEN FieldError(header, H_REMAINING)
    ELSE IF FieldError(header, H_RESET) # "ok" THEN FieldError(header, H_RESET)
    ELSE FieldError(header, H_RESET_AFTER)

\* Mutant: a response never raises a known remaining (a guard against stale
\* responses).
M5_BucketOf(header, t) ==
    LET b == header[H_BUCKET]
        r == int(header[H_REMAINING])
    IN Bucket(int(header[H_LIMIT]),
              IF b \in DOMAIN buckets /\ buckets[b].remaining < r
              THEN buckets[b].remaining ELSE r,
              float(header[H_RESET]), float(header[H_RESET_AFTER]), t)

\* Mutant: a record that comes out the same keeps the time it was cached at.
M6_BucketOf(header, t) ==
    LET b == header[H_BUCKET]
        fresh == Bucket(int(header[H_LIMIT]), int(header[H_REMAINING]),
                        float(header[H_RESET]), float(header[H_RESET_AFTER]), t)
    IN IF b \in DOMAIN buckets /\ [buckets[b] EXCEPT !.time_cached = t] = fresh
       THEN buckets[b] ELSE fresh

\* The Bucket built from a response's headers at time t.
BucketOf(header, t) ==
    Bucket(int(header[H_LIMIT]), int(header[H_REMAINING]),
           float(header[H_RESET]), float(header[H_RESET_AFTER]), t)

\* How a call of save_response_bucket ends.
SaveOutcome(header) ==
    IF Get(header, H_BUCKET) = "" THEN "noop"
    ELSE IF BucketError(header) # "ok" THEN BucketError(header)
    ELSE "saved"

\* Mutant: buckets.setdefault(bucket_id, Bucket(...)): a known record is kept.
M4_save_response_bucket(endpoint, method, header) ==
    LET bucket_id == Get(header, H_BUCKET) IN
    IF bucket_id # ""
    THEN /\ bucket_map' = Put(bucket_map, <<endpoint, method>>, bucket_id)
         /\ IF BucketError(header) = "ok" /\ bucket_id \notin DOMAIN buckets
            THEN buckets' = Put(buckets, bucket_id, BucketOf(header, now))
            ELSE UNCHANGED buckets
    ELSE UNCHANGED <<bucket_map, buckets>>

\* Mutant: header.get("X-RateLimit-Bucket", "b1"): a default bucket id.
M8_save_response_bucket(endpoint, method, header) ==
    LET bucket_id == IF H_BUCKET \in DOMAIN header THEN header[H_BUCKET] ELSE "b1" IN
    IF bucket_id # ""
    THEN /\ bucket_map' = Put(bucket_map, <<endpoint, method>>, bucket_id)
         /\ IF BucketError(header) = "ok"
            THEN buckets' = Put(buckets, bucket_id, BucketOf(header, now))
            ELSE UNCHANGED buckets
    ELSE UNCHANGED <<bucket_map, buckets>>

\* Mutant: a response without a bucket id makes its route unmetered again.
M21_save_response_bucket(endpoint, method, header) ==
    LET bucket_id == Get(header, H_BUCKET) IN
    IF bucket_id # ""
    THEN /\ bucket_map' = Put(bucket_map, <<endpoint, method>>, bucket_id)
         /\ IF BucketError(header) = "ok"
            THEN buckets' = Put(buckets, bucket_id, BucketOf(header, now))
            ELSE UNCHANGED buckets
    ELSE /\ bucket_map' = Without(bucket_map, <<endpoint, method>>)
         /\ UNCHANGED buckets

\* Mutant: a route that changes its bucket takes the record of the bucket it
\* leaves with it.
M22_save_response_bucket(endpoint, method, header) ==
    LET bucket_id == Get(header, H_BUCKET)
        route == <<endpoint, method>>
        kept == IF route \in DOMAIN bucket_map /\ bucket_map[route] # bucket_id
                THEN Without(buckets, bucket_map[route]) ELSE buckets
    IN
    IF bucket_id # ""
    THEN /\ bucket_map' = Put(bucket_map, route, bucket_id)
         /\ IF BucketError(header) = "ok"
            THEN buckets' = Put(kept, bucket_id, BucketOf(header, now))
            ELSE buckets' = kept
    ELSE UNCHANGED <<bucket_map, buckets>>

\* Lines 40-49: what the call does to the limiter's two dicts.
save_response_bucket(endpoint, method, header) ==
    LET bucket_id == Get(header, H_BUCKET) IN
    IF bucket_id # ""
    THEN /\ bucket_map' = Put(bucket_map, <<endpoint, method>>, bucket_id)
         /\ IF BucketError(header) = "ok"
            THEN buckets' = Put(buckets, bucket_id, BucketOf(header, now))
            ELSE UNCHANGED buckets
    ELSE UNCHANGED <<bucket_map, buckets>>

(* --------------------- wait_until_not_ratelimited ---------------------- *)

\* Mutant: the time since the record was cached, less reset_after.
M25_SleepTime(bucket, cur_time) == cur_time - bucket.time_cached - bucket.reset_after

\* sleep_time of line 67.
SleepTime(bucket, cur_time) == cur_time - bucket.time_cached + bucket.reset_after

\* asyncio.sleep(d) resumes the task once d has passed; at once for d <= 0.
WakeAt(cur_time, sleep_time) == IF sleep_time > 0 THEN cur_time + sleep_time ELSE cur_time

\* Mutant: the test of line 66 inverted (remaining != 0).
M1_WaitOutcome(route) ==
    IF route \notin DOMAIN bucket_map THEN "returned"
    ELSE IF bucket_map[route] \notin DOMAIN buckets THEN "KeyError"
    ELSE IF buckets[bucket_map[route]].remaining # 0 THEN "sleeping"
    ELSE "returned"

\* How the part of wait_until_not_ratelimited before the await ends.
WaitOutcome(route) ==
    IF route \notin DOMAIN bucket_map THEN "returned"
    ELSE IF bucket_map[route] \notin DOMAIN buckets THEN "KeyError"
    ELSE IF buckets[bucket_map[route]].remaining = 0 THEN "sleeping"
    ELSE "returned"

\* Mutant: the callers take turns: a caller that finds another one suspended
\* waits for it.
M12_wait_until_not_ratelimited(c, endpoint, method) ==
    LET route == <<endpoint, method>>
        held == {d \in Callers \ {c} : task[d].pc = "sleeping"}
    IN
    /\ task[c].pc = "idle"
    /\ IF held # {}
       THEN task' = [task EXCEPT ![c] = task[CHOOSE d \in held : TRUE]]
       ELSE IF WaitOutcome(route) = "sleeping"
       THEN task' = [task EXCEPT ![c] =
                [pc |-> "sleeping", bucket_id |-> bucket_map[route],
                 wake_at |-> WakeAt(now, SleepTime(buckets[bucket_map[route]], now))]]
       ELSE UNCHANGED task
    /\ UNCHANGED <<bucket_map, buckets>>

\* Mutant: a caller that is let through takes one request off the record.
M20_wait_until_not_ratelimited(c, endpoint, method) ==
    LET route == <<endpoint, method>> IN
    /\ task[c].pc = "idle"
    /\ IF WaitOutcome(route) = "sleeping"
       THEN /\ task' = [task EXCEPT ![c] =
                   [pc |-> "sleeping", bucket_id |-> bucket_map[route],
                    wake_at |-> WakeAt(now, SleepTime(buckets[bucket_map[route]], now))]]
            /\ UNCHANGED buckets
       ELSE /\ UNCHANGED task
            /\ buckets' = IF WaitOutcome(route) = "returned" /\ route \in DOMAIN bucket_map
                          THEN [buckets EXCEPT ![bucket_map[route]].remaining = @ - 1]
                          ELSE buckets
    /\ UNCHANGED bucket_map

\* Lines 58-75: from the call to its return, its KeyError or its await.
wait_until_not_ratelimited(c, endpoint, method) ==
    LET route == <<endpoint, method>> IN
    /\ task[c].pc = "idle"
    /\ IF WaitOutcome(route) = "sleeping"
       THEN LET bucket_id == bucket_map[route]
                bucket == buckets[bucket_id]
                cur_time == now
            IN task' = [task EXCEPT ![c] =
                   [pc |-> "sleeping", bucket_id |-> bucket_id,
                    wake_at |-> WakeAt(cur_time, SleepTime(bucket, cur_time))]]
       ELSE UNCHANGED task
    /\ UNCHANGED <<bucket_map, buckets>>

\* Mutant: the caller waits until the sleep is over and the record shows
\* quota again.
M17_Wake(c) ==
    /\ task[c].pc = "sleeping"
    /\ now >= task[c].wake_at
    /\ buckets[task[c].bucket_id].remaining > 0
    /\ task' = [task EXCEPT ![c] = Idle]
    /\ UNCHANGED <<bucket_map, buckets>>

\* Mutant: after the sleep the caller reads the record again and sleeps
\* again if it still shows no quota.
M19_Wake(c) ==
    /\ task[c].pc = "sleeping"
    /\ now >= task[c].wake_at
    /\ task' = IF buckets[task[c].bucket_id].remaining = 0
               THEN [task EXCEPT ![c].wake_at =
                        WakeAt(now, SleepTime(buckets[task[c].bucket_id], now))]
               ELSE [task EXCEPT ![c] = Idle]
    /\ UNCHANGED <<bucket_map, buckets>>

\* Mutant: the caller drops the record it has slept out, and the routes of it.
M23_Wake(c) ==
    /\ task[c].pc = "sleeping"
    /\ now >= task[c].wake_at
    /\ task' = [task EXCEPT ![c] = Idle]
    /\ buckets' = Without(buckets, task[c].bucket_id)
    /\ bucket_map' = [r \in {x \in DOMAIN bucket_map : bucket_map[x] # task[c].bucket_id}
                          |-> bucket_map[r]]

\* Lines 75-80: the sleep is over and the call returns.
Wake(c) ==
    /\ task[c].pc = "sleeping"
    /\ now >= task[c].wake_at
    /\ task' = [task EXCEPT ![c] = Idle]
    /\ UNCHANGED <<bucket_map, buckets>>

\* Mutant: a cancelled caller takes the record it waited for with it.
M13_CancelSleep(c) ==
    /\ task[c].pc = "sleeping"
    /\ task' = [task EXCEPT ![c] = Idle]
    /\ buckets' = Without(buckets, task[c].bucket_id)
    /\ UNCHANGED bucket_map

\* Mutant: the callers suspended on one bucket share one sleep, and the
\* cancellation of one of them ends it for all.
M14_CancelSleep(c) ==
    /\ task[c].pc = "sleeping"
    /\ task' = [d \in Callers |->
                   IF task[d].pc = "sleeping" /\ task[d].bucket_id = task[c].bucket_id
                   THEN Idle ELSE task[d]]
    /\ UNCHANGED <<bucket_map, buckets>>

\* Line 75: the task is cancelled while it awaits the sleep; CancelledError
\* leaves the function, which has no handler and nothing to undo.
CancelSleep(c) ==
    /\ task[c].pc = "sleeping"
    /\ task' = [task EXCEPT ![c] = Idle]
    /\ UNCHANGED <<bucket_map, buckets>>

(* ------------------------------- steps --------------------------------- *)

\* The four rate-limit numbers of a response.
NumbersOf(h) == [k \in DOMAIN h \cap NumericNames |-> h[k]]

\* Whether a response lacks one of the five rate-limit headers.
Lacks(h) == ~(HeaderNames \subseteq DOMAIN h)

\* The route whose response was saved by the latest call, the clock aside.
JustSaved ==
    IF (last.op = "observe" /\ last.res = "saved") \/ last.op = "tick"
    THEN last.route ELSE NoRoute

\* Whether a response on the route repeats, header for header, the response
\* saved by the latest call: "no", or "at once" or "later" by the clock.
Repeats(route, h) ==
    IF /\ JustSaved = route
       /\ HeaderNames \subseteq DOMAIN h
       /\ h[H_BUCKET] = bucket_map[route]
       /\ h[H_BUCKET] \in DOMAIN seen
       /\ NumbersOf(h) = seen[h[H_BUCKET]]
    THEN IF buckets[h[H_BUCKET]].time_cached < now THEN "later" ELSE "at once"
    ELSE "no"

\* The history of a response h on a route.
Noted(route, h) ==
    /\ last' = [NoCall EXCEPT !.op = "observe", !.route = route,
                              !.res = SaveOutcome(h),
                              !.twice = Repeats(route, h), !.lacks = Lacks(h),
                              !.bucket = Get(h, H_BUCKET)]
    /\ seen' = IF Get(h, H_BUCKET) # ""
                  /\ \A k \in NumericNames : k \in DOMAIN h /\ IsNumeric(h[k])
               THEN Put(seen, h[H_BUCKET], NumbersOf(h))
               ELSE seen
    /\ carried' = IF Get(h, H_BUCKET) # "" THEN carried \cup {route} ELSE carried

\* A response arrives and its headers are handed to save_response_bucket.
ObserveFrom(HS) ==
    \E e \in Endpoints, m \in Methods, h \in HS :
        /\ save_response_bucket(e, m, h)
        /\ Noted(<<e, m>>, h)
        /\ UNCHANGED <<now, task, lockout_until, http, peer, client>>

\* A caller asks whether it may send.
AcquireBy(CS) ==
    \E c \in CS, e \in Endpoints, m \in Methods :
        /\ wait_until_not_ratelimited(c, e, m)
        /\ last' = [NoCall EXCEPT !.op = "acquire", !.route = <<e, m>>,
                                  !.res = WaitOutcome(<<e, m>>), !.who = c,
                                  !.prev = JustSaved]
        /\ UNCHANGED <<now, seen, carried, lockout_until, http, peer, client>>

ResumeOf(CS) ==
    \E c \in CS :
        /\ Wake(c)
        /\ last' = [NoCall EXCEPT !.op = "wake", !.res = "returned", !.who = c]
        /\ UNCHANGED <<now, seen, carried, lockout_until, http, peer, client>>

\* The clock advances.
Tick ==
    /\ now < MaxTime
    /\ now' = now + 1
    /\ last' = [NoCall EXCEPT !.op = "tick", !.route = JustSaved]
    /\ UNCHANGED <<bucket_map, buckets, task, seen, carried, lockout_until, http, peer, client>>

Observe == ObserveFrom(Headers)
Acquire == AcquireBy(SeqCallers)
Resume == ResumeOf(SeqCallers)

Next == Observe \/ Acquire \/ Resume \/ Tick

Spec == Init /\ [][Next]_vars

\* Responses only, with every field of the record varying.
ObserveStore == ObserveFrom(StoreHeaders)

NextStore == ObserveStore \/ Tick

SpecStore == Init /\ [][NextStore]_vars

(* -------------------------- concurrent callers ------------------------- *)

\* The callers whose acquire on the bucket of the route has returned with no
\* other call since, the caller c included if its acquire returns.
GrantedWith(c, route) ==
    IF WaitOutcome(route) = "returned" /\ route \in DOMAIN bucket_map
    THEN {c} \cup
         (IF /\ last.op = "acquire" /\ last.res = "returned"
             /\ last.route \in DOMAIN bucket_map
             /\ bucket_map[last.route] = bucket_map[route]
          THEN last.granted ELSE {})
    ELSE {}

\* Any of the callers asks whether it may send, while others are suspended.
ConcAcquire ==
    \E c \in Callers, e \in Endpoints, m \in Methods :
        /\ wait_until_not_ratelimited(c, e, m)
        /\ last' = [NoCall EXCEPT !.op = "acquire", !.route = <<e, m>>,
                                  !.res = WaitOutcome(<<e, m>>), !.who = c,
                                  !.granted = GrantedWith(c, <<e, m>>)]
        /\ UNCHANGED <<now, seen, carried, lockout_until, http, peer, client>>

ConcResume ==
    \E c \in Callers :
        /\ Wake(c)
        /\ last' = [NoCall EXCEPT !.op = "wake", !.res = "returned", !.who = c,
                                  !.bucket = task[c].bucket_id]
        /\ UNCHANGED <<now, seen, carried, lockout_until, http, peer, client>>

\* A suspended caller is cancelled by the code that awaits it.
Cancel ==
    \E c \in Callers :
        /\ CancelSleep(c)
        /\ last' = [NoCall EXCEPT !.op = "cancel", !.res = "CancelledError",
                                  !.who = c, !.bucket = task[c].bucket_id]
        /\ UNCHANGED <<now, seen, carried, lockout_until, http, peer, client>>

\* The deadline that a caller set around its call (asyncio.wait_for) elapses
\* while the caller is suspended: wait_for cancels the call and raises
\* TimeoutError to the caller.
Deadline ==
    \E c \in Callers :
        /\ CancelSleep(c)
        /\ last' = [NoCall EXCEPT !.op = "timeout", !.res = "TimeoutError",
                                  !.who = c, !.bucket = task[c].bucket_id]
        /\ UNCHANGED <<now, seen, carried, lockout_until, http, peer, client>>

ConcObserve == ObserveFrom(ConcHeaders)

NextConc == ConcObserve \/ ConcAcquire \/ ConcResume \/ Cancel \/ Deadline \/ Tick

SpecConc == Init /\ [][NextConc]_vars

(* --------------------------- global lockout ---------------------------- *)

\* GlobalLimitGuard.trigger(retry_after)
Trigger(retry_after) == lockout_until' = now + retry_after

\* GlobalLimitGuard.isActive()
IsActive == now < lockout_until

\* A 429 of global scope arrives: the limiter is handed its headers as those
\* of any response, and the lockout it announces begins.
ObserveGlobal ==
    \E e \in Endpoints, m \in Methods, h \in GlobalHeaders :
        /\ save_response_bucket(e, m, h)
        /\ Noted(<<e, m>>, h)
        /\ Trigger(float(h[H_RETRY_AFTER]))
        /\ UNCHANGED <<now, task, http, peer, client>>

ObserveQuota == ObserveFrom(QuotaHeaders)

NextGlobal == ObserveGlobal \/ ObserveQuota \/ Acquire \/ Resume \/ Tick

SpecGlobal == Init /\ [][NextGlobal]_vars

(* ----------------------------- HttpApi.get ----------------------------- *)

Paths == {"gateway", "users/@me"}
Statuses == {200, 404, 429}

\* The retry budget of one logical call.
RetryBudget == 1

\* Line 47: the request is sent; nothing of lines 43-46 calls the limiter.
get_send(path) ==
    /\ http.pc = "idle"
    /\ http' = [HttpIdle EXCEPT !.pc = "sent", !.path = path, !.sends = 1]

\* Lines 49-52: the response is returned, or its status raised; its headers
\* are not read.
get_result(status) ==
    /\ http.pc = "sent"
    /\ http' = IF status = 200
               THEN [http EXCEPT !.pc = "returned", !.status = status]
               ELSE [http EXCEPT !.pc = "raised", !.status = status,
                                 !.exc = "Exception"]

\* Mutant: the error of requests.get is caught and the request sent once more.
M11_get_transport_error ==
    /\ http.pc = "sent"
    /\ http' = IF http.sends = 1
               THEN [http EXCEPT !.sends = 2]
               ELSE [http EXCEPT !.pc = "raised", !.exc = "ConnectionError"]

\* Line 47: requests.get raises, and the error leaves get as it is.
get_transport_error ==
    /\ http.pc = "sent"
    /\ http' = [http EXCEPT !.pc = "raised", !.exc = "ConnectionError"]

\* The caller has the result; it may call again.
get_done ==
    /\ http.pc \in {"returned", "raised"}
    /\ http' = HttpIdle

HttpStep(A, op) ==
    /\ A
    /\ last' = [NoCall EXCEPT !.op = op]
    /\ UNCHANGED <<now, bucket_map, buckets, task, seen, carried, lockout_until,
                   peer, client>>

GetSend == \E path \in Paths : HttpStep(get_send(path), "send")
GetResult == \E status \in Statuses : HttpStep(get_result(status), "response")
GetTransportError == HttpStep(get_transport_error, "error")
GetDone == HttpStep(get_done, "done")

ObserveOne == ObserveFrom(OneBucketHeaders)

NextHttp ==
    GetSend \/ GetResult \/ GetTransportError \/ GetDone \/
    ObserveOne \/ Acquire \/ Resume \/ Tick

SpecHttp == Init /\ [][NextHttp]_vars

(* ---------------------------- two instances ---------------------------- *)

\* The calls that follow are made on the other instance: its dicts become
\* self.bucket_map and self.buckets, unless they are these dicts already.
Switch ==
    /\ peer' = [self |-> IF peer.self = "A" THEN "B" ELSE "A",
                other |-> IF peer.other.shared THEN peer.other
                          ELSE [shared |-> FALSE, bucket_map |-> bucket_map,
                                buckets |-> buckets]]
    /\ IF peer.other.shared
       THEN UNCHANGED <<bucket_map, buckets>>
       ELSE /\ bucket_map' = peer.other.bucket_map
            /\ buckets' = peer.other.buckets
    /\ last' = [NoCall EXCEPT !.op = "switch"]
    /\ UNCHANGED <<now, task, seen, carried, lockout_until, http, client>>

NextPair == ObserveOne \/ Acquire \/ Resume \/ Switch \/ Tick

SpecPair == Init /\ [][NextPair]_vars

(* ----------------------- thread_update_middleware ---------------------- *)

GuildIds == {"g1", "g2"}
ChannelIds == {"c1", "c2"}
Names == {"old", "new"}
\* The value of an attribute that the payload does not give.
MISSING == ""

\* The data of a thread update: an id, a name, and a guild id or none.
Payloads ==
    {("id" :> c) @@ ("name" :> n) @@ ("guild_id" :> g) :
        c \in ChannelIds, n \in Names, g \in GuildIds} \cup
    {("id" :> c) @@ ("name" :> n) : c \in ChannelIds, n \in Names}

\* construct_client_dict: the data with the client and its http added.
construct_client_dict(c, data) ==
    Put(Put(data, "_client", "client"), "_http", "client.http")

\* Channel.from_dict: a Channel with the attributes the dict gives.
from_dict(d) ==
    [id |-> d["id"], name |-> d["name"],
     guild_id |-> IF "guild_id" \in DOMAIN d THEN d["guild_id"] ELSE MISSING]

\* utils.replace: the list with new_item in the place of every item that
\* func holds of.  func is a function on the items of the list.
replace(func, iter, new_item) ==
    [i \in 1..Len(iter) |-> IF func[iter[i]] THEN new_item ELSE iter[i]]

\* The lambda of line 34, on the items of a list.
SameId(channel, iter) ==
    [_channel \in {iter[i] : i \in 1..Len(iter)} |-> _channel.id = channel.id]

\* The thread lists with which a guild comes into the cache.
ThreadLists(g) ==
    LET t(c) == [id |-> c, name |-> "old", guild_id |-> g] IN
    {<<>>, <<t("c1")>>, <<t("c1"), t("c2")>>}

\* Mutant: the channel is cached whether its guild is known or not.
M27_thread_update_middleware(data) ==
    LET channel == from_dict(construct_client_dict(client, data))
        known == channel.guild_id \in DOMAIN client.guilds
    IN client' =
        [guilds |-> IF known
                    THEN [client.guilds EXCEPT ![channel.guild_id].threads =
                             replace(SameId(channel, @), @, channel)]
                    ELSE client.guilds,
         channels |-> Put(client.channels, channel.id, channel),
         returned |-> <<"on_thread_update", channel>>]

\* Lines 28-40.
thread_update_middleware(data) ==
    LET channel == from_dict(construct_client_dict(client, data))
        known == channel.guild_id \in DOMAIN client.guilds
    IN client' =
        [guilds |-> IF known
                    THEN [client.guilds EXCEPT ![channel.guild_id].threads =
                             replace(SameId(channel, @), @, channel)]
                    ELSE client.guilds,
         channels |-> IF known
                      THEN Put(client.channels, channel.id, channel)
                      ELSE client.channels,
         returned |-> <<"on_thread_update", channel>>]

\* A thread update arrives from the gateway.
ThreadUpdate ==
    \E data \in Payloads :
        /\ thread_update_middleware(data)
        /\ last' = [NoCall EXCEPT !.op = "thread_update", !.data = data]
        /\ UNCHANGED <<now, bucket_map, buckets, task, seen, carried, lockout_until,
                       http, peer>>

\* A guild comes into the client's guild cache, with its threads.
GuildCreate ==
    \E g \in GuildIds \ DOMAIN client.guilds : \E ts \in ThreadLists(g) :
        /\ client' = [client EXCEPT !.guilds = Put(@, g, [threads |-> ts])]
        /\ last' = [NoCall EXCEPT !.op = "guild_create"]
        /\ UNCHANGED <<now, bucket_map, buckets, task, seen, carried, lockout_until,
                       http, peer>>

NextThread == ThreadUpdate \/ GuildCreate

SpecThread == Init /\ [][NextThread]_vars

(* ------------------------------ progress ------------------------------- *)

\* The clock advances: up to MaxTime calls are made at any time, and after it
\* the clock runs on for as long as a caller is still to wake.
Advance ==
    /\ \/ now < MaxTime
       \/ \E c \in Callers : task[c].pc = "sleeping" /\ task[c].wake_at > now
    /\ now' = now + 1
    /\ last' = [NoCall EXCEPT !.op = "tick", !.route = JustSaved]
    /\ UNCHANGED <<bucket_map, buckets, task, seen, carried, lockout_until, http, peer, client>>

LiveObserve == now <= MaxTime /\ ObserveOne
LiveAcquire == now <= MaxTime /\ Acquire
LiveSend == now <= MaxTime /\ GetSend
\* requests.get returns a response or raises.
GetEnds == GetResult \/ GetTransportError

NextLive ==
    LiveObserve \/ LiveAcquire \/ LiveSend \/ GetEnds \/ GetDone \/ Resume \/ Advance

\* Time advances, the event loop resumes a task whose sleep is over, and
\* requests.get comes to an end.
SpecLive ==
    /\ Init /\ [][NextLive]_vars
    /\ WF_vars(Advance) /\ WF_vars(Resume) /\ WF_vars(GetEnds)

(* ------------------------------- claims -------------------------------- *)

\* Whether the route resolves to a stored record, and that record.
HasRecord(route) == route \in DOMAIN bucket_map /\ bucket_map[route] \in DOMAIN buckets
RecordOf(route) == buckets[bucket_map[route]]
Max0(x) == IF x > 0 THEN x ELSE 0
\* Whether the server writes the number n as the text s.
Writes(n, s) == n \in 0..9 /\ Text(n) = s

\* C1: an acquire on a route whose resolved record has remaining > 0 returns
\* without suspending, whatever the other fields and the time.
C1_PositiveRemainingReturns ==
    (last.op = "acquire" /\ HasRecord(last.route) /\ RecordOf(last.route).remaining > 0)
        => (last.res = "returned" /\ task[last.who].pc = "idle")

C1_Witness ==
    /\ last.op = "acquire" /\ HasRecord(last.route)
    /\ RecordOf(last.route).remaining > 0
    /\ RecordOf(last.route).time_cached < now
    /\ task[last.who].pc = "idle"

\* C2: an acquire on a record with remaining == 0 suspends the caller for
\* exactly max(0, cached_at + reset_after - now).
C2_ExhaustedWaitsUntilReset ==
    (last.op = "acquire" /\ HasRecord(last.route) /\ RecordOf(last.route).remaining = 0)
        => /\ task[last.who].pc = "sleeping"
           /\ task[last.who].wake_at - now =
                  Max0(RecordOf(last.route).time_cached
                       + RecordOf(last.route).reset_after - now)

\* C3: while the global lockout is active, an acquire on any route suspends
\* and does not return before the lockout ends.
C3_GlobalLockoutHoldsAll ==
    (last.op = "acquire" /\ IsActive)
        => (task[last.who].pc = "sleeping" /\ task[last.who].wake_at >= lockout_until)

\* Whether the latest call saved, through a route other than the one now
\* acquired, a response that carried the acquired route's bucket id with
\* remaining == 0, and the reset of that bucket is still ahead.
ExhaustedThroughOther ==
    /\ last.op = "acquire" /\ last.prev # NoRoute /\ last.prev # last.route
    /\ HasRecord(last.route) /\ last.prev \in DOMAIN bucket_map
    /\ bucket_map[last.prev] = bucket_map[last.route]
    /\ bucket_map[last.prev] \in DOMAIN seen
    /\ seen[bucket_map[last.prev]][H_REMAINING] = Text(0)
    /\ now < RecordOf(last.route).time_cached + RecordOf(last.route).reset_after

\* C4: two routes map to one bucket id; after a response on one of them
\* carried remaining == 0, the next acquire on the other, with no call in
\* between and before the reset, suspends.
C4_SharedBucketSuspends ==
    ExhaustedThroughOther
        => (task[last.who].pc = "sleeping" /\ task[last.who].wake_at > now)

C4_Witness ==
    /\ ExhaustedThroughOther
    /\ RecordOf(last.route).time_cached < now
    /\ task[last.who].pc = "sleeping"

\* C5: the record of a bucket id holds exactly the numbers of the latest
\* response that carried the id, and there is no record without one.
C5_LastWriteWins ==
    /\ DOMAIN buckets = DOMAIN seen
    /\ \A b \in DOMAIN seen :
        /\ Writes(buckets[b].limit, seen[b][H_LIMIT])
        /\ Writes(buckets[b].remaining, seen[b][H_REMAINING])
        /\ Writes(buckets[b].reset, seen[b][H_RESET])
        /\ Writes(buckets[b].reset_after, seen[b][H_RESET_AFTER])

\* A response raised remaining of a record written through the other route.
C5_Witness ==
    /\ last.op = "observe" /\ last.res = "saved" /\ last.twice = "no"
    /\ RecordOf(last.route).remaining > 0
    /\ RecordOf(last.route).time_cached > 0
    /\ \E r \in DOMAIN bucket_map :
          r # last.route /\ bucket_map[r] = bucket_map[last.route]

\* C6 as stated: the record after a second, identical observe equals the
\* record after the first, time_cached included.
C6_RepeatLeavesRecord ==
    [][last'.twice # "no" =>
          buckets'[bucket_map'[last'.route]] = buckets[bucket_map[last'.route]]]_vars

\* C6 as amended: the second observe leaves limit, remaining, reset and
\* reset_after as they were and sets time_cached to the time of the second call.
C6_RepeatRefreshesTime ==
    [][last'.twice # "no" =>
          /\ bucket_map' = bucket_map
          /\ buckets' = [buckets EXCEPT
                 ![bucket_map[last'.route]].time_cached = now']]_vars

C6_Witness ==
    /\ last.op = "observe" /\ last.twice = "later"
    /\ RecordOf(last.route).time_cached = now

\* C7: every stored record has 0 <= remaining <= limit.
C7_RemainingWithinLimit ==
    \A b \in DOMAIN buckets :
        0 <= buckets[b].remaining /\ buckets[b].remaining <= buckets[b].limit

\* C8: a route no response of which carried a bucket id has no mapping, and
\* an acquire on it returns without suspending.
C8_UnmeteredRouteIsFree ==
    /\ carried = {} => buckets = EmptyDict
    /\ \A r \in Routes \ carried :
        /\ r \notin DOMAIN bucket_map
        /\ (last.op = "acquire" /\ last.route = r)
              => (last.res = "returned" /\ task[last.who].pc = "idle")

\* The other route is exhausted and suspends its callers meanwhile.
C8_Witness ==
    /\ last.op = "acquire" /\ last.route \notin carried /\ now > 0
    /\ \E r \in carried : HasRecord(r) /\ RecordOf(r).remaining = 0
    /\ task[last.who].pc = "idle"

\* C9: an observe whose headers lack a rate-limit header raises nothing and
\* leaves the map and the records as they were.
C9_LackingHeadersChangeNothing ==
    [][(last'.op = "observe" /\ last'.lacks) =>
          /\ last'.res \notin {"KeyError", "ValueError"}
          /\ bucket_map' = bucket_map
          /\ buckets' = buckets]_vars

\* C10: a call that a 429 ended was retried until the retry budget was used
\* up, and ends in RateLimitExceededRetries.
C10_RetriedUntilBudget ==
    (http.pc = "raised" /\ http.status = 429)
        => (http.sends = 1 + RetryBudget /\ http.exc = "RateLimitExceededRetries")

\* C11: a failure of the transport ends the call with the error of the
\* transport itself, after the one send, with the map, the records and the
\* global lockout as they were.
C11_TransportErrorEndsCall ==
    [][last'.op = "error" =>
          /\ http'.pc = "raised" /\ http'.exc = "ConnectionError"
          /\ http'.sends = 1 /\ http'.status = 0
          /\ UNCHANGED <<bucket_map, buckets, lockout_until>>]_vars

\* The transport failed while a record was stored and a caller suspended.
C11_Witness ==
    /\ last.op = "error" /\ http.pc = "raised" /\ http.exc = "ConnectionError"
    /\ buckets # EmptyDict
    /\ \E c \in Callers : task[c].pc = "sleeping"

\* Whether the latest call is an acquire made while another caller is
\* suspended on a bucket, on a route that no response has given a bucket id
\* or whose bucket is another one and had remaining > 0 in its latest response.
AcquireBesideSuspended ==
    /\ last.op = "acquire" /\ ~IsActive
    /\ \E d \in Callers \ {last.who} :
          /\ task[d].pc = "sleeping" /\ task[d].wake_at > now
          /\ \/ last.route \notin carried
             \/ /\ HasRecord(last.route)
                /\ bucket_map[last.route] # task[d].bucket_id
                /\ seen[bucket_map[last.route]][H_REMAINING] # Text(0)

\* C12: while a caller is suspended on an exhausted bucket, an acquire on an
\* unmetered route or on a route of another bucket with remaining > 0
\* returns at once.
C12_OtherBucketNotHeld ==
    AcquireBesideSuspended => (last.res = "returned" /\ task[last.who].pc = "idle")

\* The route acquired is one of the other bucket.
C12_Witness ==
    /\ AcquireBesideSuspended /\ HasRecord(last.route)
    /\ task[last.who].pc = "idle"

\* C13: no step of an acquire changes the map, the records or the global
\* lockout: neither the call itself, nor its return after the sleep, nor its
\* cancellation while it is suspended.
C13_AcquireChangesNothing ==
    [][last'.op \in {"acquire", "wake", "cancel", "timeout"} =>
          UNCHANGED <<bucket_map, buckets, lockout_until>>]_vars

\* A caller was cancelled before its wake-up time, while its bucket's record
\* was stored and the other caller was suspended too.
C13_Witness ==
    /\ last.op = "cancel" /\ last.bucket \in DOMAIN buckets
    /\ buckets[last.bucket].remaining = 0
    /\ \E d \in Callers \ {last.who} : task[d].pc = "sleeping"

\* C14: a deadline that elapses while its caller is suspended ends that call
\* with TimeoutError, which is not the error of a rate limit, and leaves
\* every other caller suspended with its own wake-up time, at which it
\* resumes.
C14_DeadlineEndsOneCaller ==
    [][last'.op = "timeout" =>
          /\ task[last'.who].pc = "sleeping" /\ task'[last'.who].pc = "idle"
          /\ last'.res = "TimeoutError"
          /\ last'.res \notin {"Exception", "RateLimitExceededRetries"}
          /\ \A d \in Callers \ {last'.who} :
                /\ task'[d] = task[d]
                /\ (task'[d].pc = "sleeping" /\ now' >= task'[d].wake_at)
                      => ENABLED Wake(d)]_vars

\* The deadline elapsed while the other caller was suspended on the same
\* bucket, and that caller is suspended still.
C14_Witness ==
    /\ last.op = "timeout"
    /\ \E d \in Callers \ {last.who} :
          task[d].pc = "sleeping" /\ task[d].bucket_id = last.bucket

\* C15: an observe of a 429 of global scope makes the global lockout active
\* until now + retry_after, that is, until then an acquire on any route
\* would suspend and not return before that time.
C15_Global429StartsLockout ==
    IsActive =>
        \A r \in Routes :
            /\ WaitOutcome(r) = "sleeping"
            /\ WakeAt(now, SleepTime(RecordOf(r), now)) >= lockout_until

\* C16: a request is sent only after the call has completed an acquire, and
\* a call ends on a response only after the response was passed to observe.
C16_AcquireSendObserve ==
    /\ http.pc \in {"sent", "returned", "raised"} => http.acquired
    /\ (http.pc \in {"returned", "raised"} /\ http.status # 0) => http.observed

\* C17: every call under way comes to its end: a suspended acquire returns,
\* a request sent is answered or fails, and a call of get that has returned
\* or raised takes no further step but its hand-over to the caller.
C17_EveryCallEnds ==
    /\ \A c \in SeqCallers : (task[c].pc = "sleeping") ~> (task[c].pc = "idle")
    /\ (http.pc = "sent") ~> (http.pc \in {"returned", "raised"})
    /\ [][http.pc \in {"returned", "raised"} => http' \in {http, HttpIdle}]_vars

\* A caller returned from a sleep that outlasted the last call made, while
\* the record still showed no quota.
C17_Witness ==
    /\ last.op = "wake" /\ now > MaxTime
    /\ \E b \in DOMAIN buckets : buckets[b].remaining = 0

C19_SuspendsAtMostOnce ==
    [][/\ \A c \in Callers :
             task[c].pc = "sleeping" =>
                 /\ task'[c] \in {task[c], Idle}
                 /\ now >= task[c].wake_at => ENABLED Wake(c)
       /\ last'.op = "wake" => task'[last'.who] = Idle]_vars

\* The caller returned while a record stored during its wait shows its
\* bucket exhausted until a later time.
C19_Witness ==
    /\ last.op = "wake" /\ last.bucket \in DOMAIN buckets
    /\ buckets[last.bucket].remaining = 0
    /\ buckets[last.bucket].time_cached > 0
    /\ buckets[last.bucket].time_cached + buckets[last.bucket].reset_after > now

\* C20: an acquire on a bucket whose latest response had remaining > 0
\* returns at once and leaves the stored remaining at the number of that
\* response, however many callers have been let through since.
C20_GrantsDoNotCount ==
    (/\ last.op = "acquire" /\ HasRecord(last.route)
     /\ bucket_map[last.route] \in DOMAIN seen
     /\ seen[bucket_map[last.route]][H_REMAINING] # Text(0))
        => /\ last.res = "returned" /\ task[last.who].pc = "idle"
           /\ last.who \in last.granted
           /\ Writes(RecordOf(last.route).remaining,
                     seen[bucket_map[last.route]][H_REMAINING])

\* More callers have been let through, one after the other with no response
\* in between, than the record has requests remaining.
C20_Witness ==
    /\ last.op = "acquire" /\ HasRecord(last.route)
    /\ RecordOf(last.route).remaining > 0
    /\ Cardinality(last.granted) > RecordOf(last.route).remaining
    /\ \A c \in last.granted : task[c].pc = "idle"

\* C21: an observe of headers that carry no bucket id, or an empty one,
\* leaves the map and every record as they were.
C21_NoBucketIdChangesNothing ==
    [][(last'.op = "observe" /\ last'.bucket = "") =>
          (bucket_map' = bucket_map /\ buckets' = buckets)]_vars

\* The route of the response had a mapping and a record already.
C21_Witness ==
    /\ last.op = "observe" /\ last.bucket = "" /\ last.res = "noop"
    /\ HasRecord(last.route)

\* C22: an observe of headers with bucket id b on a route maps the route to
\* b whatever it was mapped to, leaves the mapping of every other route as it
\* was, and leaves every record of an id other than b as it was, the record
\* of the id the route was mapped to before included; it adds no record but
\* that of b.
C22_OverwritesOneMapping ==
    [][(last'.op = "observe" /\ last'.bucket # "") =>
          /\ bucket_map' = Put(bucket_map, last'.route, last'.bucket)
          /\ DOMAIN buckets \subseteq DOMAIN buckets'
          /\ DOMAIN buckets' \subseteq DOMAIN buckets \cup {last'.bucket}
          /\ \A b \in DOMAIN buckets \ {last'.bucket} : buckets'[b] = buckets[b]]_vars

\* The only route with a mapping is now mapped to the bucket of the response,
\* and the record of the bucket it was mapped to before is still stored.
C22_Witness ==
    /\ last.op = "observe" /\ last.res = "saved"
    /\ DOMAIN bucket_map = {last.route}
    /\ bucket_map[last.route] = last.bucket
    /\ DOMAIN buckets \ {last.bucket} # {}

\* C23: no step takes a bucket id out of the records or a route out of the
\* map.
C23_NothingIsForgotten ==
    [][/\ DOMAIN buckets \subseteq DOMAIN buckets'
       /\ DOMAIN bucket_map \subseteq DOMAIN bucket_map']_vars

\* A caller returned from its sleep, time having passed, with every route
\* mapped and a record for every bucket id.
C23_Witness ==
    /\ last.op = "wake" /\ now > 0
    /\ DOMAIN bucket_map = Routes
    /\ DOMAIN buckets = BucketIds

\* C24: every bucket id that a route is mapped to has a record, so that the
\* lookup of the record in an acquire never raises KeyError.
C24_MappedIdHasRecord ==
    /\ \A r \in DOMAIN bucket_map : bucket_map[r] \in DOMAIN buckets
    /\ last.op = "acquire" => last.res # "KeyError"

\* C25: the sleep of a caller that found its bucket exhausted is not
\* negative and ends no earlier than time_cached + reset_after of the record
\* found, and the caller does not return before the sleep has ended.
C25_NeverWakesEarly ==
    [][/\ (last'.op = "acquire" /\ last'.res = "sleeping") =>
             /\ RecordOf(last'.route).time_cached <= now
             /\ RecordOf(last'.route).reset_after >= 0
             /\ SleepTime(RecordOf(last'.route), now) >= 0
             /\ task'[last'.who].pc = "sleeping"
             /\ task'[last'.who].wake_at = now + SleepTime(RecordOf(last'.route), now)
             /\ task'[last'.who].wake_at >=
                    RecordOf(last'.route).time_cached + RecordOf(last'.route).reset_after
       /\ last'.op = "wake" => now >= task[last'.who].wake_at]_vars

\* The record was cached before the call.
C25_Witness ==
    /\ last.op = "acquire" /\ last.res = "sleeping"
    /\ RecordOf(last.route).time_cached < now
    /\ task[last.who].wake_at >= RecordOf(last.route).time_cached + RecordOf(last.route).reset_after

\* The dicts of the instance that is not self, and the time at which a
\* caller of that instance would return from an acquire on the route now.
OtherDicts ==
    IF peer.other.shared
    THEN [bucket_map |-> bucket_map, buckets |-> buckets]
    ELSE [bucket_map |-> peer.other.bucket_map, buckets |-> peer.other.buckets]
OtherWait(route) ==
    LET d == OtherDicts IN
    IF route \notin DOMAIN d.bucket_map THEN now
    ELSE IF d.bucket_map[route] \notin DOMAIN d.buckets THEN 0 - 1
    ELSE IF d.buckets[d.bucket_map[route]].remaining # 0 THEN now
    ELSE WakeAt(now, SleepTime(d.buckets[d.bucket_map[route]], now))

\* C26: an observe or an acquire on one instance, or a return from its
\* sleep, leaves the map and the records of the other instance, and the
\* waits the other instance computes, as they were.
C26_InstancesShareNothing ==
    [][last'.op \in {"observe", "acquire", "wake"} =>
          /\ OtherDicts' = OtherDicts
          /\ \A r \in Routes : OtherWait(r)' = OtherWait(r)]_vars

\* A response was saved on one instance while the other held a record that
\* makes its callers wait.
C26_Witness ==
    /\ last.op = "observe" /\ last.res = "saved"
    /\ OtherDicts.buckets # EmptyDict /\ OtherDicts.buckets # buckets
    /\ \E r \in Routes : OtherWait(r) > now

\* Whether the guild of the thread update was in the guild cache before it.
KnownGuild ==
    "guild_id" \in DOMAIN last'.data /\ last'.data["guild_id"] \in DOMAIN client.guilds
\* The channel that the data of the thread update describe.
Described ==
    [id |-> last'.data["id"], name |-> last'.data["name"],
     guild_id |-> IF "guild_id" \in DOMAIN last'.data
                  THEN last'.data["guild_id"] ELSE MISSING]

====
